---- MODULE Spec2Model ----
(***************************************************************************)
(* A state-machine model of the X11 window / event-loop core of Gosu       *)
(* (trunk/X11_WIP/WindowX.cpp): construction and destruction of the        *)
(* native resources, show()/close(), the per-tick event pump and frame     *)
(* sequence (Impl::doTick), setCaption()/caption(), and the shared-context *)
(* broker createSharedContext().                                           *)
(*                                                                         *)
(* The X server, GLX, the Input and Graphics collaborators and the user's  *)
(* callbacks are the environment: their results are drawn with \E from     *)
(* small sets.  The thread that calls show() is a program counter pc; a    *)
(* second thread may call close() at any time.                             *)
(***************************************************************************)
EXTENDS Integers, Sequences, FiniteSets, TLC

(***************************************************************************)
(* Bounds of the model (not program constants).                            *)
(***************************************************************************)
\* pending events the environment may leave in the Xlib queue
MaxQueue == 2
\* API calls one invocation of a user callback may make
MaxCalls == 2
\* shared contexts the embedder asks for
MaxShared == 2
\* show() calls counted by the history variable shows (saturating)
MaxShows == 2
\* ticks counted per show() by the history variable tick (saturating)
MaxTicks == 2
\* the millisecond clock is read modulo TimeMod (unsigned wrap-around)
TimeMod == 4

(***************************************************************************)
(* Values.                                                                 *)
(***************************************************************************)
\* the atom XInternAtom(display, "WM_DELETE_WINDOW") returns
WmDeleteWindow == 7
\* some other atom a client message may carry
OtherAtom == 5
\* static_cast<unsigned> keeps the value modulo UnsignedMod
UnsignedMod == 16

\* WM_NAME of a window on which XSetWMName was never called
NoTitle == <<0>>
\* characters of captions: the portable character set, by code
CharA == 65
CharB == 66
AllCaptions == {<<>>, <<CharA>>, <<CharB, CharA>>}

Min(a, b) == IF a < b THEN a ELSE b

\* X events: type, and for a ClientMessage the first data word
Ev(t, d) == [type |-> t, data |-> d]
ButtonPress == Ev("ButtonPress", 0)
ButtonRelease == Ev("ButtonRelease", 0)
ConfigureNotify == Ev("ConfigureNotify", 0)
DeleteMessage == Ev("ClientMessage", WmDeleteWindow)
OtherMessage == Ev("ClientMessage", OtherAtom)
WideMessage == Ev("ClientMessage", WmDeleteWindow + UnsignedMod)
FocusIn == Ev("FocusIn", 0)
FocusOut == Ev("FocusOut", 0)
Expose == Ev("Expose", 0)
MapNotify == Ev("MapNotify", 0)
UnmapNotify == Ev("UnmapNotify", 0)

AllEvents == {ButtonPress, ButtonRelease, ConfigureNotify, DeleteMessage,
              OtherMessage, WideMessage, FocusIn, FocusOut, Expose}
LoopEvents == {ButtonPress, DeleteMessage, FocusOut}
\* one event for every branch of doTick's classification
PumpEvents == {ButtonPress, ConfigureNotify, DeleteMessage, WideMessage,
               FocusIn, FocusOut}

\* the event types the server reports under each XSelectInput mask;
\* client messages are not maskable
StructureTypes == {"ConfigureNotify", "MapNotify", "UnmapNotify", "ClientMessage"}
Selected(mask, e) ==
    CASE mask = "all" -> TRUE
      [] mask = "structure" -> e.type \in StructureTypes
      [] OTHER -> e.type = "ClientMessage"

(***************************************************************************)
(* State.                                                                  *)
(***************************************************************************)
VARIABLES
    pc,             \* where the thread that owns the Window is
    args,           \* the constructor's arguments
    display,        \* Impl::display: "none" or "open"
    visual,         \* Impl::visual: "none", "null" or "ok"
    context,        \* Impl::context: "none", "null", "live" or "destroyed"
    window,         \* Impl::window: "none", "live" or "destroyed"
    width,          \* Impl::width
    height,         \* Impl::height
    sizeHints,      \* the WM normal hints set on the window, or <<>>
    graphics,       \* the size handed to Gosu::Graphics, or <<>>
    input,          \* whether Gosu::Input exists with its callbacks wired
    thrown,         \* the message of the exception the last call raised, or ""
    mapped,         \* Impl::mapped
    showing,        \* Impl::showing
    active,         \* Impl::active
    title,          \* Impl::title
    platformTitle,  \* the WM_NAME property of the window at the server
    eventMask,      \* what XSelectInput last selected on the window
    request,        \* a map/unmap request the server has not confirmed yet
    current,        \* the context current on the show() thread: "none",
                    \* "primary", or "shared" (a context of the broker)
    activation,     \* history: outcome of this show()'s last glXMakeCurrent on the primary context
    focusSet,       \* XSetInputFocus was called by show() (since it was entered)
    xq,             \* Xlib's queue of events read by XPending/XNextEvent
    nextSeq,        \* history: sequence number of the next event to arrive
    expectSeq,      \* history: sequence number following the last fetched event
    lastDispatch,   \* history: what the pump did with the event it fetched last
    oncePerTick,    \* GosusDarkSide::oncePerTick is set
    startTime,      \* show()'s local startTime
    endTime,        \* show()'s local endTime
    slept,          \* history: argument of this tick's sleep() call, -1 if none
    tickLog,        \* history: the collaborator calls of the current tick, in order
    tick,           \* history: ticks started by the current show() (saturating)
    shows,          \* history: show() calls so far (saturating)
    lastCaption,    \* history: argument of the embedder's last setCaption call
    lastCaptionShows, \* history: value of shows when that call was made
    closedInTick,   \* history: close() was called since the current tick began
    closedInShow,   \* history: close() was called since show() was entered
    closedShowing,  \* history: close() was called while showing was true
    closedEarly,    \* history: close() was called outside show()'s loop, and
                    \* show() has not tested showing since
    dupOpen,        \* duplicate display connections open (createSharedContext)
    sharedLive,     \* shared contexts alive
    sharedResult,   \* outcome of the last createSharedContext call
    printed         \* diagnostics makeCurrentContext printed (saturating)

ctorVars == <<args, display, visual, context, window, width, height,
              sizeHints, graphics, input>>
flagVars == <<mapped, showing, active>>
captionVars == <<title, platformTitle, lastCaption, lastCaptionShows>>
closeVars == <<closedInTick, closedInShow, closedShowing, closedEarly>>
queueVars == <<xq, nextSeq, expectSeq>>
timeVars == <<startTime, endTime, slept>>
sharedVars == <<dupOpen, sharedLive, sharedResult, printed>>
vars == <<pc, args, display, visual, context, window, width, height,
          sizeHints, graphics, input, thrown, mapped, showing, active, title,
          platformTitle, eventMask, request, current, activation, focusSet, xq, nextSeq,
          expectSeq, lastDispatch, oncePerTick, startTime, endTime, slept,
          tickLog, tick, shows, lastCaption, lastCaptionShows, closedInTick,
          closedInShow, closedShowing, closedEarly, dupOpen, sharedLive, sharedResult,
          printed>>

(***************************************************************************)
(* caption(), setCaption() and close(), as functions of the fields they    *)
(* read and write.  A record s holds showing, title, platformTitle and the *)
(* history fields the embedder's calls update.                             *)
(***************************************************************************)
\* Gosu::narrow on the portable character set: one byte per character
narrow(ws) == ws

\* the char vector setCaption builds: title.size() + 1 bytes, zero-filled,
\* the narrow string copied to its front, the last byte set to 0
TitleBuffer(ws) ==
    LET tmpString == narrow(ws)
        n == Len(ws) + 1
    IN  [i \in 1..n |-> IF i < n /\ i <= Len(tmpString) THEN tmpString[i] ELSE 0]

\* the C string a char buffer holds: the bytes before the first 0
RECURSIVE CString(_)
CString(buf) ==
    IF buf = <<>> \/ Head(buf) = 0 THEN <<>>
    ELSE <<Head(buf)>> \o CString(Tail(buf))

caption(s) == s.title

\* a setCaption() without the early return
setCaptionUngated(s, c) ==
    [s EXCEPT !.title = c, !.platformTitle = CString(TitleBuffer(c))]

\* Window::setCaption
setCaption(s, c) ==
    LET s1 == [s EXCEPT !.title = c]
    IN  IF ~s1.showing THEN s1
        ELSE [s1 EXCEPT !.platformTitle = CString(TitleBuffer(s1.title))]

\* a close() that leaves the flag alone
closeForgets(s) == s

\* Window::close
close(s) == [s EXCEPT !.showing = FALSE]

\* the calls a user callback (or the embedder) may make on the Window
CloseCall == [op |-> "close", caption |-> <<>>]
CaptionCall(c) == [op |-> "setCaption", caption |-> c]
UserCalls(captions) == {CloseCall} \cup {CaptionCall(c) : c \in captions}

\* one call, with the history fields brought up to date
Invoke(u, s) ==
    IF u.op = "close"
    THEN [close(s) EXCEPT !.closedInTick = TRUE, !.closedInShow = TRUE,
                          !.closedShowing = s.closedShowing \/ s.showing]
    ELSE [setCaption(s, u.caption) EXCEPT !.lastCaption = u.caption,
                                          !.lastCaptionShows = shows]

\* what a callback does: a sequence of at most MaxCalls calls
Scripts(captions) ==
    UNION {[1..n -> UserCalls(captions)] : n \in 0..MaxCalls}

RECURSIVE RunScript(_, _)
RunScript(script, s) ==
    IF script = <<>> THEN s
    ELSE RunScript(Tail(script), Invoke(Head(script), s))

\* the fields above, read from and written to the state
Cur ==
    [showing |-> showing, title |-> title, platformTitle |-> platformTitle,
     lastCaption |-> lastCaption, lastCaptionShows |-> lastCaptionShows,
     closedInTick |-> closedInTick, closedInShow |-> closedInShow,
     closedShowing |-> closedShowing, closedEarly |-> closedEarly]

Store(s) ==
    /\ showing' = s.showing
    /\ title' = s.title
    /\ platformTitle' = s.platformTitle
    /\ lastCaption' = s.lastCaption
    /\ lastCaptionShows' = s.lastCaptionShows
    /\ closedInTick' = s.closedInTick
    /\ closedInShow' = s.closedInShow
    /\ closedShowing' = s.closedShowing
    /\ closedEarly' = s.closedEarly

(***************************************************************************)
(* Construction: Impl::Impl, then Window::Window step by step.             *)
(***************************************************************************)
\* the size the X screen reports
ScreenWidth == 4
ScreenHeight == 3
\* the update interval is a double; the model counts it in units of
\* 1/IntervalScale millisecond
IntervalScale == 2

Args(w, h, f, u) == [width |-> w, height |-> h, fullscreen |-> f, updateInterval |-> u]

\* the state once pimpl(new Impl(...)) has run, for arguments in argSet and
\* the process-wide hook in one of the states of hookSet
InitOver(argSet, hookSet) ==
    /\ args \in argSet
    /\ oncePerTick \in hookSet
    /\ pc = "ctor"
    /\ display = "none" /\ visual = "none" /\ context = "none" /\ window = "none"
    /\ width = args.width /\ height = args.height
    /\ sizeHints = <<>> /\ graphics = <<>> /\ input = FALSE
    /\ thrown = ""
    /\ mapped = FALSE /\ showing = FALSE /\ active = TRUE
    /\ title = <<>> /\ platformTitle = NoTitle
    /\ eventMask = "none" /\ request = "none" /\ current = "none"
    /\ activation = "none"
    /\ focusSet = FALSE
    /\ xq = <<>> /\ nextSeq = 0 /\ expectSeq = 0
    /\ lastDispatch = <<>>
    /\ startTime = 0 /\ endTime = 0 /\ slept = -1
    /\ tickLog = <<>> /\ tick = 0 /\ shows = 0
    /\ lastCaption = NoTitle /\ lastCaptionShows = 0
    /\ closedInTick = FALSE /\ closedInShow = FALSE /\ closedShowing = FALSE
    /\ closedEarly = FALSE
    /\ dupOpen = 0 /\ sharedLive = 0 /\ sharedResult = "none" /\ printed = 0

\* everything but pc and the constructor's own fields
restVars == <<mapped, showing, active, title, platformTitle, eventMask,
              request, current, activation, focusSet, xq, nextSeq, expectSeq,
              lastDispatch, oncePerTick, startTime, endTime, slept, tickLog,
              tick, shows, lastCaption, lastCaptionShows, closedInTick,
              closedInShow, closedShowing, closedEarly, dupOpen, sharedLive, sharedResult,
          printed>>

\* XOpenDisplay(NULL); a null display throws "Cannot find display"
CtorOpenDisplay(displays) ==
    /\ pc = "ctor"
    /\ \E ok \in displays :
        IF ok
        THEN /\ display' = "open" /\ pc' = "ctor_visual" /\ thrown' = thrown
        ELSE /\ display' = display /\ pc' = "ctor_threw"
             /\ thrown' = "Cannot find display"
    /\ UNCHANGED <<args, visual, context, window, width, height, sizeHints,
                   graphics, input>>
    /\ UNCHANGED restVars

\* glXChooseVisual: the result, which may be NULL, is stored unchecked
CtorChooseVisual(visuals) ==
    /\ pc = "ctor_visual"
    /\ \E v \in visuals : visual' = v
    /\ pc' = "ctor_context"
    /\ UNCHANGED <<args, display, context, window, width, height, sizeHints,
                   graphics, input, thrown>>
    /\ UNCHANGED restVars

\* glXCreateContext: the result, which may be NULL, is stored unchecked.
\* Handed a NULL visual, GLX either dereferences it or reports no context.
CtorCreateContext(contexts) ==
    /\ pc = "ctor_context"
    /\ \/ /\ visual = "ok"
          /\ \E c \in contexts : context' = c
          /\ pc' = "ctor_window"
       \/ /\ visual = "null"
          /\ context' = "null"
          /\ pc' \in {"crashed", "ctor_window"}
    /\ UNCHANGED <<args, display, visual, window, width, height, sizeHints,
                   graphics, input, thrown>>
    /\ UNCHANGED restVars

\* XCreateColormap and XCreateWindow read visual->visual and visual->depth:
\* with a NULL visual this is a null-pointer read, which ends the process.
\* Then the WM_DELETE_WINDOW protocol is registered.
CtorCreateWindow ==
    /\ pc = "ctor_window"
    /\ IF visual = "null"
       THEN /\ pc' = "crashed" /\ window' = window
       ELSE /\ pc' = "ctor_size" /\ window' = "live"
    /\ UNCHANGED <<args, display, visual, context, width, height, sizeHints,
                   graphics, input, thrown>>
    /\ UNCHANGED restVars

\* fullscreen takes the screen's size; the size hints pin minimum and
\* maximum to the stored size
CtorSize ==
    /\ pc = "ctor_size"
    /\ width' = IF args.fullscreen THEN ScreenWidth ELSE width
    /\ height' = IF args.fullscreen THEN ScreenHeight ELSE height
    /\ sizeHints' = [min |-> <<width', height'>>, max |-> <<width', height'>>]
    /\ pc' = "ctor_components"
    /\ UNCHANGED <<args, display, visual, context, window, graphics, input, thrown>>
    /\ UNCHANGED restVars

\* a constructor that hands Graphics the requested size
CtorComponentsRequested ==
    /\ pc = "ctor_components"
    /\ graphics' = <<args.width, args.height>>
    /\ input' = TRUE
    /\ pc' = "idle"
    /\ UNCHANGED <<args, display, visual, context, window, width, height,
                   sizeHints, thrown>>
    /\ UNCHANGED restVars

\* the blank cursor, then Graphics and Input and the button callbacks
CtorComponents ==
    /\ pc = "ctor_components"
    /\ graphics' = <<width, height>>
    /\ input' = TRUE
    /\ pc' = "idle"
    /\ UNCHANGED <<args, display, visual, context, window, width, height,
                   sizeHints, thrown>>
    /\ UNCHANGED restVars

\* a destructor that also destroys the shared contexts
DestructorReleasesShared ==
    /\ pc = "idle"
    /\ window' = "destroyed"
    /\ graphics' = <<>>
    /\ input' = FALSE
    /\ pc' = "destroyed"
    /\ sharedLive' = 0
    /\ UNCHANGED <<args, display, visual, context, width, height, sizeHints, thrown>>
    /\ UNCHANGED <<mapped, showing, active, title, platformTitle, eventMask,
                   request, current, activation, focusSet, xq, nextSeq, expectSeq,
                   lastDispatch, oncePerTick, startTime, endTime, slept, tickLog,
                   tick, shows, lastCaption, lastCaptionShows, closedInTick,
                   closedInShow, closedShowing, closedEarly, dupOpen, sharedResult, printed>>

\* Window::~Window: XDestroyWindow and XSync; then the members of Impl go
\* (Graphics, Input).  Nothing destroys the GLX context or closes the display.
Destructor ==
    /\ pc = "idle"
    /\ window' = "destroyed"
    /\ graphics' = <<>>
    /\ input' = FALSE
    /\ pc' = "destroyed"
    /\ UNCHANGED <<args, display, visual, context, width, height, sizeHints, thrown>>
    /\ UNCHANGED restVars

(***************************************************************************)
(* The shared-context broker.                                              *)
(***************************************************************************)
\* where the Window exists: constructed and not destroyed, between show()
\* calls or anywhere inside one
AlivePcs == {"idle", "wait_map", "make_current", "focus", "reapply",
             "set_showing", "loop_test", "pump", "render", "input_update",
             "update", "hook", "throttle", "release", "unmap", "wait_unmap"}

\* where the thread that calls show() runs the embedder's code: between
\* calls, and inside the callbacks of a tick
OwnerPcs == {"idle", "pump", "render", "input_update", "update", "hook",
             "destroyed"}

\* Window::createSharedContext: a second XOpenDisplay, then glXCreateContext
\* sharing with the primary context; either failure throws.  It is a member
\* function without precondition: a callback or another thread may call it
\* while show() runs
createSharedContext(dups, ctxs) ==
    /\ pc \in AlivePcs
    /\ dupOpen < MaxShared
    /\ \E d \in dups, c \in ctxs :
        IF ~d
        THEN /\ sharedResult' = "Could not duplicate X display"
             /\ UNCHANGED <<dupOpen, sharedLive>>
        ELSE IF ~c
        THEN /\ sharedResult' = "Could not create shared GLX context"
             /\ dupOpen' = dupOpen + 1
             /\ UNCHANGED sharedLive
        ELSE /\ sharedResult' = "ok"
             /\ dupOpen' = dupOpen + 1
             /\ sharedLive' = sharedLive + 1
    /\ UNCHANGED <<pc, thrown, printed>>
    /\ UNCHANGED ctorVars
    /\ UNCHANGED <<mapped, showing, active, title, platformTitle, eventMask,
                   request, current, activation, focusSet, xq, nextSeq, expectSeq,
                   lastDispatch, oncePerTick, startTime, endTime, slept,
                   tickLog, tick, shows, lastCaption, lastCaptionShows,
                   closedInTick, closedInShow, closedShowing, closedEarly>>

\* the release capability: releaseContext is glXDestroyContext and no more
releaseContext ==
    /\ sharedLive > 0
    /\ sharedLive' = sharedLive - 1
    /\ UNCHANGED <<dupOpen, sharedResult, printed, pc, thrown>>
    /\ UNCHANGED ctorVars
    /\ UNCHANGED <<mapped, showing, active, title, platformTitle, eventMask,
                   request, current, activation, focusSet, xq, nextSeq, expectSeq,
                   lastDispatch, oncePerTick, startTime, endTime, slept,
                   tickLog, tick, shows, lastCaption, lastCaptionShows,
                   closedInTick, closedInShow, closedShowing, closedEarly>>

\* the make-current capability: makeCurrentContext calls glXMakeCurrent on the
\* shared context and prints "glXMakeCurrent failed" when it returns false.
\* glXMakeCurrent binds the context on the calling thread: invoked on the
\* thread that calls show(), it replaces the context current there
makeCurrentContext(results) ==
    /\ sharedLive > 0
    /\ \E ok \in results, onShowThread \in BOOLEAN :
        /\ onShowThread => pc \in OwnerPcs
        /\ printed' = IF ok THEN printed ELSE Min(printed + 1, MaxShared)
        /\ current' = IF ok /\ onShowThread THEN "shared" ELSE current
    /\ UNCHANGED <<dupOpen, sharedLive, sharedResult, pc, thrown>>
    /\ UNCHANGED ctorVars
    /\ UNCHANGED <<mapped, showing, active, title, platformTitle, eventMask,
                   request, activation, focusSet, xq, nextSeq, expectSeq,
                   lastDispatch, oncePerTick, startTime, endTime, slept,
                   tickLog, tick, shows, lastCaption, lastCaptionShows,
                   closedInTick, closedInShow, closedShowing, closedEarly>>

(***************************************************************************)
(* The environment: the X server and the embedder between calls.           *)
(***************************************************************************)
\* sequence numbers tell the queued events apart; they wrap at SeqMod
SeqMod == MaxQueue + 2

Queued(e) == [ev |-> e, seq |-> nextSeq]

loopVars == <<lastDispatch, startTime, endTime, slept, tickLog, tick, shows>>

\* the server reports an event the window's mask selects
Arrive(e) ==
    /\ window = "live"
    /\ Len(xq) < MaxQueue
    /\ Selected(eventMask, e)
    /\ xq' = Append(xq, Queued(e))
    /\ nextSeq' = (nextSeq + 1) % SeqMod
    /\ UNCHANGED <<pc, thrown, expectSeq, eventMask, request, current, activation, focusSet,
                   oncePerTick>>
    /\ UNCHANGED <<ctorVars, flagVars, captionVars, closeVars, loopVars, sharedVars>>

\* the server confirms the map or unmap request with MapNotify / UnmapNotify
PlatformConfirm ==
    /\ request # "none"
    /\ xq' = Append(xq, Queued(IF request = "map" THEN MapNotify ELSE UnmapNotify))
    /\ nextSeq' = (nextSeq + 1) % SeqMod
    /\ request' = "none"
    /\ UNCHANGED <<pc, thrown, expectSeq, eventMask, current, activation, focusSet, oncePerTick>>
    /\ UNCHANGED <<ctorVars, flagVars, captionVars, closeVars, loopVars, sharedVars>>

\* where show() is from its first test of showing to the test that fails
InLoopPcs == {"loop_test", "pump", "render", "input_update", "update", "hook",
              "throttle"}

\* close() called from outside the callbacks: by the owning thread between
\* show() calls, or by another thread while show() runs
closeFromOutside ==
    /\ window = "live"
    /\ Store([Invoke(CloseCall, Cur) EXCEPT
                 !.closedEarly = @ \/ pc \notin InLoopPcs])
    /\ UNCHANGED <<pc, thrown, mapped, active, eventMask, request, current, activation,
                   focusSet, oncePerTick>>
    /\ UNCHANGED <<ctorVars, queueVars, loopVars, sharedVars>>

\* setCaption() called by the owning thread between show() calls
setCaptionFromOutside(captions) ==
    /\ pc = "idle"
    /\ \E c \in captions : Store(Invoke(CaptionCall(c), Cur))
    /\ UNCHANGED <<pc, thrown, mapped, active, eventMask, request, current, activation,
                   focusSet, oncePerTick>>
    /\ UNCHANGED <<ctorVars, queueVars, loopVars, sharedVars>>

(***************************************************************************)
(* Window::show and Impl::executeAndWait.                                  *)
(***************************************************************************)
\* executeAndWait up to its loop: select StructureNotify, issue the request
ExecuteAndWaitBegin(what) ==
    /\ eventMask' = "structure"
    /\ request' = what

\* a wait that puts back what it does not await, for later pumps to see
ExecuteAndWaitPutBack(forMessage) ==
    /\ xq # <<>>
    /\ xq' = IF Head(xq).ev.type = forMessage
             THEN Tail(xq)
             ELSE Append(Tail(xq), [ev |-> Head(xq).ev, seq |-> nextSeq])
    /\ nextSeq' = IF Head(xq).ev.type = forMessage
                  THEN nextSeq ELSE (nextSeq + 1) % SeqMod
    /\ expectSeq' = (Head(xq).seq + 1) % SeqMod
    /\ eventMask' = IF Head(xq).ev.type = forMessage THEN "all" ELSE eventMask

\* one round of executeAndWait's loop: XNextEvent blocks until an event is
\* queued; any event but the awaited one is dropped; the awaited one ends the
\* loop and the full event mask is selected
ExecuteAndWaitFetch(forMessage) ==
    /\ xq # <<>>
    /\ xq' = Tail(xq)
    /\ expectSeq' = (Head(xq).seq + 1) % SeqMod
    /\ eventMask' = IF Head(xq).ev.type = forMessage THEN "all" ELSE eventMask
    /\ UNCHANGED nextSeq

\* show(): executeAndWait(XMapRaised, MapNotify), first half
ShowMapRaised ==
    /\ pc = "idle"
    /\ ExecuteAndWaitBegin("map")
    /\ pc' = "wait_map"
    /\ shows' = Min(shows + 1, MaxShows)
    /\ tick' = 0 /\ tickLog' = <<>> /\ slept' = -1 /\ lastDispatch' = <<>>
    /\ focusSet' = FALSE
    /\ closedInTick' = FALSE /\ closedInShow' = FALSE /\ closedShowing' = FALSE
    /\ activation' = "none"
    /\ UNCHANGED <<closedEarly, thrown, current, oncePerTick, startTime, endTime>>
    /\ UNCHANGED <<ctorVars, flagVars, captionVars, queueVars, sharedVars>>

\* show(): the wait for MapNotify, then mapped = true
ShowWaitMap ==
    /\ pc = "wait_map"
    /\ ExecuteAndWaitFetch("MapNotify")
    /\ IF Head(xq).ev.type = "MapNotify"
       THEN /\ mapped' = TRUE /\ pc' = "make_current"
       ELSE /\ mapped' = mapped /\ pc' = pc
    /\ UNCHANGED <<thrown, showing, active, request, current, activation, focusSet, oncePerTick>>
    /\ UNCHANGED <<ctorVars, captionVars, closeVars, loopVars, sharedVars>>

\* glXMakeCurrent(display, window, context); its result is not looked at
MakeCurrent(results) ==
    \E ok \in results :
        /\ current' = IF ok /\ context = "live" THEN "primary" ELSE current
        /\ activation' = IF ok /\ context = "live" THEN "ok" ELSE "failed"

\* show(): make the primary context current
ShowMakeCurrent(results) ==
    /\ pc = "make_current"
    /\ MakeCurrent(results)
    /\ pc' = "focus"
    /\ UNCHANGED <<thrown, eventMask, request, focusSet, oncePerTick>>
    /\ UNCHANGED <<ctorVars, flagVars, captionVars, closeVars, queueVars,
                   loopVars, sharedVars>>

\* show(): if fullscreen, XSetInputFocus
ShowFocus ==
    /\ pc = "focus"
    /\ focusSet' = args.fullscreen
    /\ pc' = "reapply"
    /\ UNCHANGED <<thrown, eventMask, request, current, activation, oncePerTick>>
    /\ UNCHANGED <<ctorVars, flagVars, captionVars, closeVars, queueVars,
                   loopVars, sharedVars>>

\* show(): setCaption(pimpl->title)
ShowSetCaption ==
    /\ pc = "reapply"
    /\ Store(setCaption(Cur, title))
    /\ pc' = "set_showing"
    /\ UNCHANGED <<thrown, mapped, active, eventMask, request, current, activation,
                   focusSet, oncePerTick>>
    /\ UNCHANGED <<ctorVars, queueVars, loopVars, sharedVars>>

\* a show() that remembers a close() made before it got here
ShowSetShowingUnlessClosed ==
    /\ pc = "set_showing"
    /\ showing' = ~closedEarly
    /\ pc' = "loop_test"
    /\ UNCHANGED <<thrown, mapped, active, eventMask, request, current, activation,
                   focusSet, oncePerTick>>
    /\ UNCHANGED <<ctorVars, captionVars, closeVars, queueVars, loopVars, sharedVars>>

\* show(): pimpl->showing = true
ShowSetShowing ==
    /\ pc = "set_showing"
    /\ showing' = TRUE
    /\ pc' = "loop_test"
    /\ UNCHANGED <<thrown, mapped, active, eventMask, request, current, activation,
                   focusSet, oncePerTick>>
    /\ UNCHANGED <<ctorVars, captionVars, closeVars, queueVars, loopVars, sharedVars>>

\* show(): while (pimpl->showing), and in the loop startTime = milliseconds()
ShowLoopTest(times) ==
    /\ pc = "loop_test"
    /\ IF showing
       THEN /\ pc' = "pump"
            /\ \E t \in times : startTime' = t
            /\ tick' = Min(tick + 1, MaxTicks)
            /\ tickLog' = <<>> /\ slept' = -1
            /\ closedInTick' = FALSE
       ELSE /\ pc' = "release"
            /\ UNCHANGED <<startTime, tick, tickLog, slept, closedInTick>>
    /\ closedEarly' = FALSE
    /\ UNCHANGED <<thrown, eventMask, request, current, activation, focusSet, oncePerTick,
                   lastDispatch, endTime, shows, closedInShow, closedShowing>>
    /\ UNCHANGED <<ctorVars, flagVars, captionVars, queueVars, sharedVars>>

(***************************************************************************)
(* Impl::doTick and the rest of the loop body.                             *)
(***************************************************************************)
IsButton(e) == e.type \in {"ButtonPress", "ButtonRelease"}

\* static_cast<unsigned>(event.xclient.data.l[0]) == XInternAtom(...)
IsDeleteMessage(e) ==
    e.type = "ClientMessage" /\ (e.data % UnsignedMod) = WmDeleteWindow

\* the override-redirect fix: a button event while fullscreen and not active
FocusFix(e) == IsButton(e) /\ args.fullscreen /\ ~active

\* a pump that follows focus events whether or not Input claimed them
ActiveAfterAnyway(e, claimed) ==
    IF e.type = "FocusIn" THEN TRUE
    ELSE IF e.type = "FocusOut" THEN FALSE
    ELSE active

\* the value of active after the pump's own handling of event e
ActiveAfter(e, claimed) ==
    IF ~claimed /\ e.type = "FocusIn" THEN TRUE
    ELSE IF ~claimed /\ e.type = "FocusOut" THEN FALSE
    ELSE active

\* a pump that makes the focus request only for events Input left alone
PumpActsUnclaimed(e, claimed) ==
    (IF ~claimed /\ FocusFix(e) THEN {"XSetInputFocus"} ELSE {})
    \cup (IF ~claimed /\ e.type = "ConfigureNotify" THEN {"glXMakeCurrent"} ELSE {})
    \cup (IF ~claimed /\ IsDeleteMessage(e) THEN {"close"} ELSE {})
    \cup (IF ~claimed /\ e.type \in {"FocusIn", "FocusOut"} THEN {"active"} ELSE {})

\* what the pump itself did for event e
PumpActs(e, claimed) ==
    (IF FocusFix(e) THEN {"XSetInputFocus"} ELSE {})
    \cup (IF ~claimed /\ e.type = "ConfigureNotify" THEN {"glXMakeCurrent"} ELSE {})
    \cup (IF ~claimed /\ IsDeleteMessage(e) THEN {"close"} ELSE {})
    \cup (IF ~claimed /\ e.type \in {"FocusIn", "FocusOut"} THEN {"active"} ELSE {})

\* one round of the pump: XPending is non-zero, XNextEvent takes the oldest
\* event, the focus fix, Input::feedXEvent (which may run a button callback),
\* and the local classification when Input did not claim the event
PumpEvent(captions, results) ==
    /\ pc = "pump"
    /\ xq # <<>>
    /\ LET e == Head(xq).ev IN
       \E claimed \in BOOLEAN,
          script \in (IF IsButton(e) THEN Scripts(captions) ELSE {<<>>}) :
          LET s1 == RunScript(script, Cur)
              s2 == IF ~claimed /\ IsDeleteMessage(e) THEN Invoke(CloseCall, s1) ELSE s1
          IN  /\ Store(s2)
              /\ active' = ActiveAfter(e, claimed)
              /\ IF ~claimed /\ e.type = "ConfigureNotify"
                 THEN MakeCurrent(results)
                 ELSE UNCHANGED <<current, activation>>
              /\ lastDispatch' = [ev |-> e, seq |-> Head(xq).seq, claimed |-> claimed,
                                  acts |-> PumpActs(e, claimed)]
    /\ xq' = Tail(xq)
    /\ expectSeq' = (Head(xq).seq + 1) % SeqMod
    /\ UNCHANGED <<pc, thrown, mapped, eventMask, request, focusSet, oncePerTick,
                   nextSeq, startTime, endTime, slept, tickLog, tick, shows>>
    /\ UNCHANGED <<ctorVars, sharedVars>>

\* a pump that may return with events still pending
PumpDoneEarly ==
    /\ pc = "pump"
    /\ pc' = "render"
    /\ tickLog' = Append(tickLog, "pumped")
    /\ lastDispatch' = <<>>
    /\ UNCHANGED <<thrown, eventMask, request, current, activation, focusSet, oncePerTick,
                   startTime, endTime, slept, tick, shows>>
    /\ UNCHANGED <<ctorVars, flagVars, captionVars, closeVars, queueVars, sharedVars>>

\* the pump ends when XPending reports no event
PumpDone ==
    /\ pc = "pump"
    /\ xq = <<>>
    /\ pc' = "render"
    /\ tickLog' = Append(tickLog, "pumped")
    /\ lastDispatch' = <<>>
    /\ UNCHANGED <<thrown, eventMask, request, current, activation, focusSet, oncePerTick,
                   startTime, endTime, slept, tick, shows>>
    /\ UNCHANGED <<ctorVars, flagVars, captionVars, closeVars, queueVars, sharedVars>>

\* a step of the loop body that runs a user callback and logs what was called
CallbackStep(at, next, logged, scripts) ==
    /\ pc = at
    /\ pc' = next
    /\ \E script \in scripts : Store(RunScript(script, Cur))
    /\ tickLog' = tickLog \o logged
    /\ UNCHANGED <<thrown, mapped, active, eventMask, request, current, activation, focusSet,
                   oncePerTick, lastDispatch, startTime, endTime, slept, tick, shows>>
    /\ UNCHANGED <<ctorVars, queueVars, sharedVars>>

\* a doTick that returns when begin() fails, skipping Input and update()
RenderOrReturn(begins, captions) ==
    \E ok \in begins :
        IF ok
        THEN CallbackStep("render", "input_update",
                          <<"begin:true", "draw", "end", "swap">>, Scripts(captions))
        ELSE CallbackStep("render", "hook", <<"begin:false">>, {<<>>})

\* a doTick that draws and swaps whatever begin() returned
RenderUnchecked(begins, captions) ==
    \E ok \in begins :
        CallbackStep("render", "input_update",
                     <<IF ok THEN "begin:true" ELSE "begin:false", "draw", "end", "swap">>,
                     Scripts(captions))

\* graphics().begin(); if true: draw(), graphics().end(), glXSwapBuffers
Render(begins, captions) ==
    \E ok \in begins :
        IF ok
        THEN CallbackStep("render", "input_update",
                          <<"begin:true", "draw", "end", "swap">>, Scripts(captions))
        ELSE CallbackStep("render", "input_update", <<"begin:false">>, {<<>>})

\* input().update(), which may run button callbacks
InputUpdate(captions) ==
    CallbackStep("input_update", "update", <<"Input.update">>, Scripts(captions))

\* window->update()
Update(captions) ==
    CallbackStep("update", "hook", <<"update">>, Scripts(captions))

\* a loop that never calls the hook
HookSkipped(captions) ==
    CallbackStep("hook", "throttle", <<>>, {<<>>})

\* if (GosusDarkSide::oncePerTick) GosusDarkSide::oncePerTick()
Hook(captions) ==
    IF oncePerTick
    THEN CallbackStep("hook", "throttle", <<"oncePerTick">>, Scripts(captions))
    ELSE CallbackStep("hook", "throttle", <<>>, {<<>>})

\* endTime - startTime in unsigned arithmetic
Elapsed(endT, startT) == (endT - startT + TimeMod) % TimeMod

\* the argument of sleep(): updateInterval - (endTime - startTime), a double,
\* in units of 1/IntervalScale millisecond
SleepArg(elapsed) == args.updateInterval - elapsed * IntervalScale

\* a throttle that sleeps the whole interval, whatever the tick took
ThrottleWholeInterval(times) ==
    /\ pc = "throttle"
    /\ pc' = "loop_test"
    /\ \E t \in times : endTime' = t
    /\ IF Elapsed(endTime', startTime) * IntervalScale < args.updateInterval
       THEN /\ slept' = args.updateInterval
            /\ tickLog' = tickLog \o <<"milliseconds", "sleep">>
       ELSE /\ slept' = -1
            /\ tickLog' = Append(tickLog, "milliseconds")
    /\ UNCHANGED <<thrown, eventMask, request, current, activation, focusSet, oncePerTick,
                   lastDispatch, startTime, tick, shows>>
    /\ UNCHANGED <<ctorVars, flagVars, captionVars, closeVars, queueVars, sharedVars>>

\* endTime = milliseconds(); sleep for the rest of the interval, if any
Throttle(times) ==
    /\ pc = "throttle"
    /\ pc' = "loop_test"
    /\ \E t \in times : endTime' = t
    /\ IF Elapsed(endTime', startTime) * IntervalScale < args.updateInterval
       THEN /\ slept' = SleepArg(Elapsed(endTime', startTime))
            /\ tickLog' = tickLog \o <<"milliseconds", "sleep">>
       ELSE /\ slept' = -1
            /\ tickLog' = Append(tickLog, "milliseconds")
    /\ UNCHANGED <<thrown, eventMask, request, current, activation, focusSet, oncePerTick,
                   lastDispatch, startTime, tick, shows>>
    /\ UNCHANGED <<ctorVars, flagVars, captionVars, closeVars, queueVars, sharedVars>>

\* a show() that leaves the primary context current when it unmaps
ShowReleaseKeeps ==
    /\ pc = "release"
    /\ pc' = "unmap"
    /\ UNCHANGED <<thrown, eventMask, request, current, activation, focusSet,
                   oncePerTick>>
    /\ UNCHANGED <<ctorVars, flagVars, captionVars, closeVars, queueVars,
                   loopVars, sharedVars>>

\* after the loop: glXMakeCurrent(display, 0, 0)
ShowRelease ==
    /\ pc = "release"
    /\ current' = "none"
    /\ activation' = activation
    /\ pc' = "unmap"
    /\ UNCHANGED <<thrown, eventMask, request, focusSet, oncePerTick>>
    /\ UNCHANGED <<ctorVars, flagVars, captionVars, closeVars, queueVars,
                   loopVars, sharedVars>>

\* a show() that destroys the window where it should unmap it
ShowUnmapDestroys ==
    /\ pc = "unmap"
    /\ ExecuteAndWaitBegin("unmap")
    /\ pc' = "wait_unmap"
    /\ window' = "destroyed"
    /\ UNCHANGED <<thrown, current, activation, focusSet, oncePerTick>>
    /\ UNCHANGED <<args, display, visual, context, width, height, sizeHints,
                   graphics, input>>
    /\ UNCHANGED <<flagVars, captionVars, closeVars, queueVars, loopVars, sharedVars>>

\* executeAndWait(XUnmapWindow, UnmapNotify), first half
ShowUnmap ==
    /\ pc = "unmap"
    /\ ExecuteAndWaitBegin("unmap")
    /\ pc' = "wait_unmap"
    /\ UNCHANGED <<thrown, current, activation, focusSet, oncePerTick>>
    /\ UNCHANGED <<ctorVars, flagVars, captionVars, closeVars, queueVars,
                   loopVars, sharedVars>>

\* the wait for UnmapNotify, then mapped = false and show() returns
ShowWaitUnmap ==
    /\ pc = "wait_unmap"
    /\ ExecuteAndWaitFetch("UnmapNotify")
    /\ IF Head(xq).ev.type = "UnmapNotify"
       THEN /\ mapped' = FALSE /\ pc' = "idle"
       ELSE /\ mapped' = mapped /\ pc' = pc
    /\ UNCHANGED <<thrown, showing, active, request, current, activation, focusSet, oncePerTick>>
    /\ UNCHANGED <<ctorVars, captionVars, closeVars, loopVars, sharedVars>>

(***************************************************************************)
(* Specifications.  Each draws the environment's choices from sets that    *)
(* make the cases of the claims checked under it happen.                   *)
(***************************************************************************)
Construct(displays, visuals, contexts) ==
    \/ CtorOpenDisplay(displays)
    \/ CtorChooseVisual(visuals)
    \/ CtorCreateContext(contexts)
    \/ CtorCreateWindow
    \/ CtorSize
    \/ CtorComponents

ShowEnter(results) ==
    \/ ShowMapRaised
    \/ ShowWaitMap
    \/ ShowMakeCurrent(results)
    \/ ShowFocus
    \/ ShowSetCaption
    \/ ShowSetShowing

Tick(captions, times, begins, results) ==
    \/ ShowLoopTest(times)
    \/ PumpEvent(captions, results)
    \/ PumpDone
    \/ Render(begins, captions)
    \/ InputUpdate(captions)
    \/ Update(captions)
    \/ Hook(captions)
    \/ Throttle(times)

ShowLeave ==
    \/ ShowRelease
    \/ ShowUnmap
    \/ ShowWaitUnmap

\* the loop: every construction succeeds, a windowed Window, the hook set or
\* not, a few event types, callbacks and other threads that close; the clock
\* reads 0, 1 or 2 ms against an interval of 1.5 ms, so that a tick takes no
\* time, a part of the interval, or more than the interval (also across the
\* wrap of the clock)
LoopArgs == {Args(2, 2, FALSE, 3)}
InitLoop == InitOver(LoopArgs, BOOLEAN)
NextLoop ==
    \/ Construct({TRUE}, {"ok"}, {"live"})
    \/ ShowEnter({TRUE})
    \/ Tick({}, {0, 1, 2}, BOOLEAN, {TRUE})
    \/ ShowLeave
    \/ \E e \in LoopEvents : Arrive(e)
    \/ PlatformConfirm
    \/ closeFromOutside
SpecLoop == InitLoop /\ [][NextLoop]_vars

\* the pump: one event type of every branch of the classification, windowed
\* and fullscreen, closed by the close-protocol message only
PumpArgs == {Args(2, 2, f, 3) : f \in BOOLEAN}
InitPump == InitOver(PumpArgs, {FALSE})
NextPump ==
    \/ Construct({TRUE}, {"ok"}, {"live"})
    \/ ShowEnter({TRUE})
    \/ Tick({}, {0}, {TRUE}, {TRUE})
    \/ ShowLeave
    \/ \E e \in PumpEvents : Arrive(e)
    \/ PlatformConfirm
SpecPump == InitPump /\ [][NextPump]_vars

\* captions: every caption, set between and during show() calls
CaptionArgs == {Args(2, 2, FALSE, 3)}
InitCaption == InitOver(CaptionArgs, {FALSE})
NextCaption ==
    \/ Construct({TRUE}, {"ok"}, {"live"})
    \/ ShowEnter({TRUE})
    \/ Tick(AllCaptions, {0}, {TRUE}, {TRUE})
    \/ ShowLeave
    \/ Arrive(DeleteMessage)
    \/ PlatformConfirm
    \/ closeFromOutside
    \/ setCaptionFromOutside(AllCaptions)
SpecCaption == InitCaption /\ [][NextCaption]_vars

\* construction with every outcome of the display, the visual and the context
CtorArgs == {Args(w, h, f, 3) : w \in {2, 5}, h \in {2, 3}, f \in BOOLEAN}
InitCtor == InitOver(CtorArgs, {FALSE})
NextCtor ==
    \/ Construct(BOOLEAN, {"ok", "null"}, {"live", "null"})
    \/ Destructor
    \/ ShowEnter({TRUE})
    \/ Tick({}, {0}, {TRUE}, {TRUE})
    \/ ShowLeave
    \/ Arrive(DeleteMessage)
    \/ PlatformConfirm
    \/ closeFromOutside
SpecCtor == InitCtor /\ [][NextCtor]_vars

\* activation: glXMakeCurrent may fail, in show(), on a configure
\* notification in the pump, and in the capability of a shared context
ActivateArgs == {Args(2, 2, FALSE, 3)}
InitActivate == InitOver(ActivateArgs, {FALSE})
NextActivate ==
    \/ Construct({TRUE}, {"ok"}, {"live"})
    \/ ShowEnter(BOOLEAN)
    \/ Tick({}, {0}, {TRUE}, BOOLEAN)
    \/ ShowLeave
    \/ \E e \in {ConfigureNotify, DeleteMessage} : Arrive(e)
    \/ PlatformConfirm
    \/ closeFromOutside
    \/ createSharedContext({TRUE}, {TRUE})
    \/ makeCurrentContext(BOOLEAN)
SpecActivate == InitActivate /\ [][NextActivate]_vars

\* the broker: shared contexts created, made current and released between
\* show() calls and while show() runs
SharedArgs == {Args(2, 2, FALSE, 3)}
InitShared == InitOver(SharedArgs, {FALSE})
NextShared ==
    \/ Construct({TRUE}, {"ok"}, {"live"})
    \/ Destructor
    \/ createSharedContext(BOOLEAN, BOOLEAN)
    \/ makeCurrentContext(BOOLEAN)
    \/ releaseContext
    \/ ShowEnter({TRUE})
    \/ Tick({}, {0}, {TRUE}, {TRUE})
    \/ ShowLeave
    \/ Arrive(DeleteMessage)
    \/ PlatformConfirm
    \/ closeFromOutside
SpecShared == InitShared /\ [][NextShared]_vars

\* show() as a blocking call: the thread inside show() keeps running, the
\* server confirms every map and unmap request, and the server does not
\* outrun the pump for ever: again and again the pump has no event pending,
\* and a pump that keeps finding its queue empty ends
BlockArgs == {Args(2, 2, FALSE, 3)}
InitBlock == InitOver(BlockArgs, {TRUE})
ShowRuns ==
    \/ ShowWaitMap
    \/ ShowMakeCurrent({TRUE})
    \/ ShowFocus
    \/ ShowSetCaption
    \/ ShowSetShowing
    \/ Tick({}, {0}, BOOLEAN, {TRUE})
    \/ ShowLeave
NextBlock ==
    \/ Construct({TRUE}, {"ok"}, {"live"})
    \/ ShowMapRaised
    \/ ShowRuns
    \/ Arrive(DeleteMessage)
    \/ PlatformConfirm
    \/ closeFromOutside
FairBlock ==
    /\ InitBlock /\ [][NextBlock]_vars
    /\ WF_vars(ShowRuns) /\ WF_vars(PlatformConfirm) /\ SF_vars(PumpDone)
    /\ []<>(pc = "pump" => xq = <<>>)

(***************************************************************************)
(* Properties of the tick.                                                 *)
(***************************************************************************)
TickBodyPcs == {"pump", "render", "input_update", "update", "hook", "throttle"}

StepAfter(p) ==
    CASE p = "pump" -> "render"
      [] p = "render" -> "input_update"
      [] p = "input_update" -> "update"
      [] p = "update" -> "hook"
      [] p = "hook" -> "throttle"
      [] p = "throttle" -> "loop_test"
      [] OTHER -> p

Count(log, x) == Cardinality({i \in DOMAIN log : log[i] = x})
Begins(log) == Count(log, "begin:true") + Count(log, "begin:false")

\* the log of a tick that ran every step
FullTick(log) ==
    /\ Len(log) >= 5
    /\ log[1] = "pumped"
    /\ Begins(log) = 1
    /\ Count(log, "Input.update") = 1
    /\ Count(log, "update") = 1
    /\ Count(log, "oncePerTick") = (IF oncePerTick THEN 1 ELSE 0)
    /\ Count(log, "milliseconds") = 1
    /\ log[Len(log)] \in {"milliseconds", "sleep"}

\* close() was called in the current tick of a running show()
ClosedThisTick == closedInTick /\ tick >= 1

\* C1: once close() is called during a tick, the tick's remaining steps run
\* one after the other (the pump until the queue is empty, render, Input
\* update, update, hook, throttle), the loop test that follows leaves the
\* loop, and no step of a further tick starts.
C1_CloseTakesEffectAfterTick ==
    [][ (ClosedThisTick \/ ClosedThisTick') =>
          /\ (pc \in TickBodyPcs => pc' \in {pc, StepAfter(pc)})
          /\ (pc = "pump" /\ pc' = "render" => xq = <<>>)
          /\ (ClosedThisTick /\ pc = "loop_test" =>
                pc' \in {"loop_test", "release"} /\ FullTick(tickLog))
          /\ (ClosedThisTick /\ pc \in TickBodyPcs \cup {"loop_test"} =>
                tick' = tick) ]_vars

\* show() has left the loop after a tick in which close() was called, and
\* that tick slept
C1_Witness ==
    /\ pc = "release" /\ ClosedThisTick /\ slept >= 0
    /\ Count(tickLog, "draw") = 1

\* C2: in every tick Input.update() and then update() run exactly once each,
\* after the render attempt, whether or not begin() succeeded.
C2_UpdateOncePerTick ==
    /\ Count(tickLog, "Input.update") <= 1
    /\ Count(tickLog, "update") <= 1
    /\ (tick >= 1 /\ pc \notin {"pump", "render", "input_update", "update"}) =>
          \E i \in 2..(Len(tickLog) - 1) :
              /\ tickLog[i] = "Input.update"
              /\ tickLog[i + 1] = "update"
              /\ \E j \in 1..(i - 1) : tickLog[j] \in {"begin:true", "begin:false"}

\* a tick is over in which begin() failed
C2_Witness ==
    /\ pc = "loop_test" /\ tick >= 1
    /\ Count(tickLog, "begin:false") = 1 /\ Count(tickLog, "update") = 1

\* C3: in every tick begin() is called exactly once, after the pump; when it
\* returns true, draw(), end() and the buffer swap follow once each in that
\* order; when it returns false none of them happens.
C3_RenderOncePerTick ==
    /\ Begins(tickLog) <= 1
    /\ (tick >= 1 /\ pc \in {"pump", "render"}) =>
          \A x \in {"draw", "end", "swap"} : Count(tickLog, x) = 0
    /\ (tick >= 1 /\ pc \notin {"pump", "render"}) =>
          /\ Len(tickLog) >= 2
          /\ tickLog[1] = "pumped"
          /\ tickLog[2] \in {"begin:true", "begin:false"}
          /\ Begins(tickLog) = 1
          /\ IF tickLog[2] = "begin:true"
             THEN /\ Len(tickLog) >= 5
                  /\ SubSeq(tickLog, 3, 5) = <<"draw", "end", "swap">>
                  /\ \A x \in {"draw", "end", "swap"} : Count(tickLog, x) = 1
             ELSE \A x \in {"draw", "end", "swap"} : Count(tickLog, x) = 0

\* a tick is over in which begin() succeeded and the frame was presented
C3_Witness ==
    /\ pc = "loop_test" /\ tick >= 1
    /\ Count(tickLog, "swap") = 1

(***************************************************************************)
(* Properties of the event pump.                                           *)
(***************************************************************************)
\* the queued events carry consecutive sequence numbers, oldest first,
\* starting with the one that follows the last fetched event
QueueInOrder ==
    \A i \in DOMAIN xq : xq[i].seq = (expectSeq + i - 1) % SeqMod

\* C4: the pump fetches only when an event is pending, the event it fetches
\* and dispatches is the oldest one (the one that arrived right after the
\* event fetched before it), that event leaves the queue and the order of the
\* others is kept, and the pump returns only when the queue is empty.
C4_PumpIsFifo ==
    /\ []QueueInOrder
    /\ [][ pc = "pump" =>
             /\ (expectSeq' # expectSeq =>
                   /\ xq # <<>>
                   /\ lastDispatch' # <<>>
                   /\ lastDispatch'.seq = expectSeq
                   /\ lastDispatch'.ev = Head(xq).ev
                   /\ xq' = Tail(xq))
             /\ (lastDispatch' # lastDispatch /\ pc' = "pump" =>
                   expectSeq' = (expectSeq + 1) % SeqMod)
             /\ (pc' = "render" => xq = <<>>) ]_vars

\* the pump has dispatched one event and the next, of another type, waits
C4_Witness ==
    /\ pc = "pump" /\ lastDispatch # <<>> /\ xq # <<>>
    /\ Head(xq).ev # lastDispatch.ev
    /\ Len(xq) = MaxQueue

(***************************************************************************)
(* Properties of the caption.                                              *)
(***************************************************************************)
\* C5: after setCaption(t), caption() is t, whatever the state; and as long
\* as the embedder's last setCaption call dates from before the first show(),
\* the window's WM_NAME was never set: neither that call nor show()'s own
\* setCaption(title) sent it.
C5_CaptionStoredNotSent ==
    /\ (lastCaption # NoTitle => caption(Cur) = lastCaption)
    /\ (lastCaptionShows = 0 => platformTitle = NoTitle)

\* a caption was set before the first show(), show() has run ticks and
\* returned, and the server never saw a title
C5_Witness ==
    /\ pc = "idle" /\ shows >= 1 /\ tick >= 1
    /\ lastCaptionShows = 0 /\ lastCaption = <<CharB, CharA>>
    /\ caption(Cur) = <<CharB, CharA>>
    /\ platformTitle = NoTitle

\* C6 as claimed: once show() has been called, the caption of the embedder's
\* last setCaption call is the window's title at the server.
C6_CaptionSentOnceShown ==
    (lastCaption # NoTitle /\ lastCaptionShows >= 1) => platformTitle = lastCaption

(***************************************************************************)
(* Properties of show() as a blocking call.                                *)
(***************************************************************************)
ShowPcs == {"wait_map", "make_current", "focus", "reapply", "set_showing",
            "loop_test", "release", "unmap", "wait_unmap"} \cup TickBodyPcs

\* C7 as claimed: show() leaves its loop only after a close(), and a close()
\* called at any time after show() was entered makes show() return.
C7_AnyCloseEndsShow ==
    /\ [][pc = "loop_test" /\ pc' = "release" => closedInShow]_vars
    /\ (closedInShow /\ pc \in ShowPcs) ~> (pc = "idle")

\* what the loop does guarantee: show() leaves its loop only after a close()
\* that found showing true, and a close() called while showing is true makes
\* show() return.
CloseWhileShowingEndsShow ==
    /\ [][pc = "loop_test" /\ pc' = "release" => closedShowing]_vars
    /\ (closedShowing /\ pc \in ShowPcs) ~> (pc = "idle")

\* show() has returned after two or more ticks, closed while showing
ShowReturned ==
    /\ pc = "idle" /\ shows >= 1 /\ tick >= 2
    /\ closedShowing /\ ~showing /\ ~mapped

(***************************************************************************)
(* Properties of construction, destruction and the broker.                 *)
(***************************************************************************)
\* C8 as claimed: a construction that found no display, no visual or no
\* context ends with an exception: it never crashes and never yields a Window.
C8_FailedConstructionThrows ==
    /\ pc # "crashed"
    /\ (pc = "ctor_threw" => thrown # "" /\ window = "none")
    /\ (pc \in {"idle", "destroyed"} \cup ShowPcs =>
          display = "open" /\ visual = "ok" /\ context = "live")

\* C9 as claimed: only a successful createSharedContext() leaves one more
\* duplicate connection open.
C9_FailedBrokerLeavesNothing ==
    [][dupOpen' > dupOpen => sharedResult' = "ok"]_vars

\* C10 as claimed: a constructed Window has its native window and its
\* primary context, and after the destructor neither survives.
C10_WindowAndContextTogether ==
    /\ (pc \in {"idle"} \cup ShowPcs => window = "live" /\ context = "live")
    /\ (pc = "destroyed" => window = "destroyed" /\ context = "destroyed")

(***************************************************************************)
(* Properties of repeated show() calls.                                    *)
(***************************************************************************)
\* C11: every show() call issues one map request, on entry, and one unmap
\* request, after its loop; it starts ticks only while no close() has cleared
\* showing and leaves its loop only after one has; it returns from the unmap
\* wait; and from the end of construction on, through any number of show()
\* calls, the display connection, the window and the primary context stay
\* the ones the constructor made.
C11_ShowAgainKeepsResources ==
    [][ /\ (pc = "idle" /\ pc' # "idle" =>
               pc' = "wait_map" /\ request = "none" /\ request' = "map")
        /\ (request' = "map" /\ request # "map" => pc = "idle")
        /\ (request' = "unmap" /\ request # "unmap" =>
               pc = "unmap" /\ pc' = "wait_unmap" /\ request = "none")
        /\ (pc = "wait_map" /\ pc' # pc => pc' = "make_current" /\ mapped')
        /\ (mapped' # mapped => pc \in {"wait_map", "wait_unmap"})
        /\ (pc = "loop_test" /\ pc' = "pump" => mapped /\ ~closedShowing)
        /\ (pc = "loop_test" /\ pc' = "release" => closedShowing)
        /\ (pc # "idle" /\ pc' = "idle" /\ pc \in ShowPcs =>
               pc = "wait_unmap" /\ ~mapped' /\ request = "none")
        /\ (pc \in ShowPcs \cup {"idle"} =>
               /\ display' = display /\ display = "open"
               /\ window' = window /\ window = "live"
               /\ context' = context /\ context = "live") ]_vars

\* the second show() call has run ticks and returned
C11_Witness ==
    /\ pc = "idle" /\ shows >= 2 /\ tick >= 1
    /\ ~mapped /\ ~showing /\ window = "live" /\ context = "live"

(***************************************************************************)
(* Properties of the constructed size.                                     *)
(***************************************************************************)
\* C12: once the constructor has returned, the stored size, the size given
\* to Graphics and the minimum and maximum size hints are the requested
\* width and height for a windowed Window and the screen's width and height
\* for a fullscreen one.
C12_SizeAfterConstruction ==
    pc \in {"idle"} \cup ShowPcs =>
        LET w == IF args.fullscreen THEN ScreenWidth ELSE args.width
            h == IF args.fullscreen THEN ScreenHeight ELSE args.height
        IN  /\ width = w /\ height = h
            /\ graphics = <<w, h>>
            /\ sizeHints # <<>>
            /\ sizeHints.min = <<w, h>> /\ sizeHints.max = <<w, h>>

\* a fullscreen Window was constructed with a requested size that differs
\* from the screen's in both dimensions
C12_Witness ==
    /\ pc = "idle" /\ args.fullscreen
    /\ args.width = 5 /\ args.height = 2
    /\ width = ScreenWidth /\ height = ScreenHeight
    /\ graphics = <<ScreenWidth, ScreenHeight>>

(***************************************************************************)
(* Properties of the pump's classification.                                *)
(***************************************************************************)
\* the pump has just dispatched an event (this step fetched it)
Dispatched == lastDispatch' # <<>> /\ lastDispatch' # lastDispatch

\* C13 as claimed: for an event that Input claimed, the pump itself did
\* nothing: no focus request, no re-bind, no close(), no change of active.
C13_ClaimedEventNoAction ==
    (lastDispatch # <<>> /\ lastDispatch.claimed) => lastDispatch.acts = {}

\* C13, amended: for an event that Input claimed the pump makes no re-bind
\* and no close() and leaves active alone, so that showing changes only if a
\* button callback closed; the focus request comes before the event is offered
\* to Input: it is made for every button event that finds the window
\* fullscreen and not active, claimed or not, and for no other event.
C13_ClaimedEventOnlyFocusFix ==
    [][ Dispatched =>
          LET d == lastDispatch' IN
          /\ ("XSetInputFocus" \in d.acts <=>
                 (d.ev.type \in {"ButtonPress", "ButtonRelease"}
                    /\ args.fullscreen /\ ~active))
          /\ (d.claimed =>
                 /\ d.acts \subseteq {"XSetInputFocus"}
                 /\ active' = active
                 /\ current' = current /\ activation' = activation
                 /\ (d.ev.type \notin {"ButtonPress", "ButtonRelease"} =>
                        showing' = showing /\ closedInTick' = closedInTick)) ]_vars

\* Input claimed a button event and the pump had asked for the focus
C13_Witness ==
    /\ pc = "pump" /\ lastDispatch # <<>>
    /\ lastDispatch.claimed /\ lastDispatch.ev = ButtonPress
    /\ lastDispatch.acts = {"XSetInputFocus"}
    /\ ~active /\ args.fullscreen

\* C14 as claimed: an unclaimed client message whose first data word is the
\* WM_DELETE_WINDOW atom clears showing, an unclaimed client message with any
\* other first data word leaves showing as it is, and show() leaves its loop
\* at the end of the tick that pumped the close message.
C14_OnlyDeleteAtomCloses ==
    [][ /\ (Dispatched /\ lastDispatch'.ev.type = "ClientMessage"
               /\ ~lastDispatch'.claimed =>
               IF lastDispatch'.ev.data = WmDeleteWindow
               THEN ~showing' /\ closedInTick'
               ELSE showing' = showing /\ closedInTick' = closedInTick)
        /\ (pc = "loop_test" /\ closedInTick /\ tick >= 1 =>
               pc' \in {"loop_test", "release"} /\ tick' = tick
               /\ Count(tickLog, "update") = 1) ]_vars

\* the pump has just dispatched a focus event that Input did not claim
FocusDispatched ==
    /\ Dispatched
    /\ ~lastDispatch'.claimed
    /\ lastDispatch'.ev.type \in {"FocusIn", "FocusOut"}

\* C15: active is true when the Window is made; a focus event the pump
\* dispatches and Input does not claim sets it to true (focus gained) or
\* false (focus lost); no other step changes it.
C15_ActiveFollowsFocus ==
    /\ [](pc \in {"ctor", "ctor_visual", "ctor_context", "ctor_window",
                  "ctor_size", "ctor_components"} => active)
    /\ [][ /\ (FocusDispatched => active' = (lastDispatch'.ev.type = "FocusIn"))
           /\ (~FocusDispatched => active' = active) ]_vars

\* the window had lost the focus and the pump has just dispatched a
\* focus-gained event that Input claimed: active is still false
C15_Witness ==
    /\ pc = "pump" /\ lastDispatch # <<>>
    /\ lastDispatch.ev = FocusIn /\ lastDispatch.claimed
    /\ ~active

(***************************************************************************)
(* Properties of the hook and the throttle.                                *)
(***************************************************************************)
\* the position of x in log, 0 if it is not there
Pos(log, x) ==
    IF \E i \in DOMAIN log : log[i] = x
    THEN CHOOSE i \in DOMAIN log : log[i] = x /\ \A j \in 1..(i - 1) : log[j] # x
    ELSE 0

\* C16: when the hook is set, every tick calls it exactly once, right after
\* update() (hence after the pump and the render attempt) and before the
\* tick's end time is read and before any sleep; when it is not set, the end
\* time is read right after update() and nothing is called in between.
C16_HookOncePerTick ==
    /\ Count(tickLog, "oncePerTick") <= 1
    /\ (~oncePerTick => Count(tickLog, "oncePerTick") = 0)
    /\ (tick >= 1 /\ pc \in {"pump", "render", "input_update", "update", "hook"} =>
          /\ Count(tickLog, "oncePerTick") = 0
          /\ Count(tickLog, "milliseconds") = 0 /\ Count(tickLog, "sleep") = 0)
    /\ (tick >= 1 /\ pc \in {"throttle", "loop_test", "release"} =>
          LET u == Pos(tickLog, "update")
              next == IF oncePerTick THEN u + 2 ELSE u + 1
          IN  /\ u > Pos(tickLog, "pumped") /\ Pos(tickLog, "pumped") = 1
              /\ u > 2
              /\ tickLog[2] \in {"begin:true", "begin:false"}
              /\ (oncePerTick => Len(tickLog) > u /\ tickLog[u + 1] = "oncePerTick")
              /\ (pc = "throttle" => Len(tickLog) = next - 1)
              /\ (pc # "throttle" =>
                    /\ Len(tickLog) >= next
                    /\ tickLog[next] = "milliseconds"
                    /\ \A i \in (next + 1)..Len(tickLog) : tickLog[i] = "sleep"))

\* a tick is over in which the hook ran and the loop slept
C16_Witness ==
    /\ pc = "loop_test" /\ tick >= 1 /\ oncePerTick
    /\ Count(tickLog, "oncePerTick") = 1 /\ Count(tickLog, "sleep") = 1

\* C17: a tick calls sleep() only at its end; with elapsed the difference of
\* the tick's end and start times in unsigned arithmetic, it calls sleep()
\* once, with updateInterval - elapsed, when elapsed < updateInterval, and not
\* at all otherwise: the two timestamps of the tick decide, nothing else.
C17_SleepForTheRemainder ==
    /\ (tick >= 1 /\ pc \in TickBodyPcs => slept = -1 /\ Count(tickLog, "sleep") = 0)
    /\ (tick >= 1 /\ pc \in {"loop_test", "release"} =>
          LET elapsed == (endTime - startTime) % TimeMod
              interval == args.updateInterval
          IN  IF elapsed * IntervalScale < interval
              THEN /\ Count(tickLog, "sleep") = 1
                   /\ slept = interval - elapsed * IntervalScale
              ELSE /\ Count(tickLog, "sleep") = 0
                   /\ slept = -1)

\* the second tick (or a later one) began late on the clock, took a part of
\* the interval and slept for the rest of it, less than the whole interval
C17_Witness ==
    /\ pc = "loop_test" /\ tick >= 2
    /\ startTime = 1 /\ endTime = 2
    /\ Count(tickLog, "sleep") = 1
    /\ slept = args.updateInterval - IntervalScale
    /\ 0 < slept /\ slept < args.updateInterval

(***************************************************************************)
(* Properties of mapping and the primary context.                          *)
(***************************************************************************)
\* where show() is between the end of its setup and the end of its loop
LoopPcs == TickBodyPcs \cup {"loop_test"}

\* show() has called glXMakeCurrent and no callback has run since
BeforeFirstTick ==
    \/ pc \in {"focus", "reapply", "set_showing"}
    \/ pc = "loop_test" /\ tick = 0

\* C18: ticks run only with the window mapped and after glXMakeCurrent was
\* called for the primary context: the first tick starts after the MapNotify
\* was fetched and after glXMakeCurrent, with the primary context current
\* unless that call failed; during the ticks the context current on the
\* show() thread is the primary one or, once a callback has invoked the
\* capability of a shared context there, a shared one, unless the last
\* activation in the loop failed; after the last tick the context is released before the
\* unmap request goes out, and show() returns only on fetching the
\* UnmapNotify; showing implies mapped, and outside show() both are false.
C18_TicksOnlyWhileMapped ==
    /\ [](/\ (pc \in LoopPcs =>
                /\ mapped /\ activation # "none"
                /\ (activation = "ok" => current \in {"primary", "shared"}))
          /\ (BeforeFirstTick /\ activation = "ok" => current = "primary")
          /\ (showing => mapped)
          /\ (pc \notin ShowPcs => ~showing /\ ~mapped)
          /\ (pc \in {"unmap", "wait_unmap"} => current = "none" /\ mapped)
          /\ (request = "unmap" => current = "none" /\ pc = "wait_unmap"))
    /\ [][ /\ (pc = "wait_map" /\ pc' # pc =>
                 xq # <<>> /\ Head(xq).ev = MapNotify /\ request = "none")
           /\ (pc = "wait_unmap" /\ pc' # pc =>
                 /\ xq # <<>> /\ Head(xq).ev = UnmapNotify /\ request = "none"
                 /\ pc' = "idle" /\ ~mapped') ]_vars

\* after a tick the context is released and the window, still mapped, waits
\* for the server to confirm the unmap request
C18_Witness ==
    /\ pc = "wait_unmap" /\ request = "unmap" /\ tick >= 1
    /\ mapped /\ ~showing /\ current = "none" /\ activation = "ok"

\* a step of the main loop that calls glXMakeCurrent for the primary context:
\* show() before its first tick, or the pump on a configure notification
ActivationStep ==
    \/ pc = "make_current" /\ pc' = "focus"
    \/ Dispatched /\ "glXMakeCurrent" \in lastDispatch'.acts

\* C19 as claimed: when glXMakeCurrent fails in the main loop, a diagnostic
\* is printed, nothing is raised, and the loop goes on with its next step.
C19_ActivationFailureLogged ==
    [][ ActivationStep /\ activation' = "failed" =>
          /\ printed' > printed
          /\ thrown' = thrown
          /\ pc' \in {"focus", "pump"} ]_vars

(***************************************************************************)
(* Properties of the shared contexts' lifetime.                            *)
(***************************************************************************)
\* C20: a shared context goes away only by its release capability, one
\* context per call, in a step that is no operation of the Window (show()
\* and its return, the destructor, close() leave the shared contexts alone);
\* the release leaves the duplicate connection open, and no step ever closes
\* one.
C20_ReleaseIsTheCallers ==
    [][ /\ dupOpen' >= dupOpen
        /\ (sharedLive' < sharedLive =>
               /\ sharedLive' = sharedLive - 1
               /\ dupOpen' = dupOpen
               /\ UNCHANGED <<pc, display, window, context, mapped, showing,
                              request, current, xq>>) ]_vars

\* the Window was shown and destroyed; the last createSharedContext()
\* succeeded and every shared context has been released since, while every
\* duplicate connection is still open
C20_Witness ==
    /\ pc = "destroyed" /\ shows >= 1
    /\ sharedResult = "ok" /\ sharedLive = 0
    /\ dupOpen = MaxShared

(***************************************************************************)
(* Properties of the waits of executeAndWait.                              *)
(***************************************************************************)
\* a round of executeAndWait's loop: one XNextEvent call of show()'s map wait
\* or unmap wait returned
WaitFetched == pc \in {"wait_map", "wait_unmap"} /\ expectSeq' # expectSeq

\* C21: every event that show() fetches while it waits for the map
\* confirmation or for the unmap confirmation is consumed and discarded: the
\* fetch takes the oldest event off the queue and nothing else, the event is
\* not offered to Input and not classified (no dispatch is recorded and no
\* collaborator is called), showing and active keep their values, no close()
\* is recorded, and the event is not in the queue any more, so that no later
\* pump fetches it; the wait goes on unless the event is the awaited one.
C21_WaitDiscardsEvents ==
    [][ WaitFetched =>
          /\ xq # <<>>
          /\ Head(xq).seq = expectSeq
          /\ xq' = Tail(xq)
          /\ \A i \in DOMAIN xq' : xq'[i].seq # Head(xq).seq
          /\ nextSeq' = nextSeq
          /\ showing' = showing /\ active' = active
          /\ lastDispatch' = lastDispatch /\ tickLog' = tickLog
          /\ UNCHANGED <<closedInTick, closedInShow, closedShowing>>
          /\ (Head(xq).ev.type \notin {"MapNotify", "UnmapNotify"} =>
                pc' = pc /\ mapped' = mapped /\ eventMask' = eventMask) ]_vars

\* show()'s first map wait has fetched and dropped one event, and the oldest
\* event now is the close-protocol message, ahead of the map confirmation;
\* the window is active and was never showing
C21_Witness ==
    /\ pc = "wait_map" /\ shows = 1 /\ expectSeq = 1
    /\ Len(xq) = 2 /\ xq[1].ev = DeleteMessage /\ xq[2].ev = MapNotify
    /\ active /\ ~showing /\ ~mapped

(***************************************************************************)
(* Properties of a close() that comes before show()'s loop.                *)
(***************************************************************************)
\* C22 as claimed: a close() made before show() has set showing (between
\* show() calls or during show()'s set-up) is not remembered: show() sets
\* showing to true whatever was called before, and after such a close() it
\* does not leave its loop at the first test of showing: it runs a tick first.
C22_EarlyCloseThenTick ==
    [][ /\ (pc = "set_showing" /\ pc' = "loop_test" => showing')
        /\ (pc = "loop_test" /\ closedEarly /\ pc' # pc =>
               pc' = "pump" /\ tick' = 1) ]_vars

\* C22, amended: a close() made before show() has set showing is not
\* remembered: show() sets showing to true whatever was called before; unless
\* a further close() comes between that assignment and the first test of
\* showing, the first test passes and a tick begins; a tick that has begun
\* runs to its end, step by step, and is a full tick when the loop tests
\* showing again; and show() leaves its loop only after a close() that was
\* called while showing was true.
C22_EarlyCloseForgotten ==
    [][ /\ (pc = "set_showing" /\ pc' = "loop_test" => showing')
        /\ (pc = "loop_test" /\ closedEarly /\ ~closedShowing /\ pc' # pc =>
               pc' = "pump" /\ tick' = 1)
        /\ (pc \in TickBodyPcs => pc' \in {pc, StepAfter(pc)})
        /\ (pc \in TickBodyPcs /\ pc' = "loop_test" => FullTick(tickLog'))
        /\ (pc = "loop_test" /\ pc' = "release" => closedShowing) ]_vars

\* close() was called during this show()'s set-up and not since; a full tick
\* has run and the window is still showing
C22_Witness ==
    /\ pc = "loop_test" /\ tick >= 1 /\ FullTick(tickLog)
    /\ closedInShow /\ ~closedShowing /\ ~closedEarly
    /\ showing /\ mapped

====
